---- MODULE Spec2Model ----
(***************************************************************************)
(* BucketStorage (bucket_map/src/bucket_storage.rs): a memory-mapped file  *)
(* of 2^capacity_pow2 cells of cell_size bytes, each cell an 8-byte Header *)
(* (the lock word) followed by the payload.  The mmap is modelled byte by  *)
(* byte, u64 values as four 16-bit limbs with wrapping arithmetic.         *)
(***************************************************************************)
EXTENDS Integers, Sequences, FiniteSets, TLC

(***************************************************************************)
(* Bounds of the model.                                                    *)
(***************************************************************************)
\* arena slots: the buckets that are alive at the same time
MaxArenas == 2
\* capacity exponents 0..MaxPow2 passed to the constructors
MaxPow2 == 1
\* new_resized grows a source of exponent p to p..p+MaxGrow
MaxGrow == 1
\* num_elems of a cell is 1..MaxNumElems
MaxNumElems == 2
\* payload bytes written through the mutable views are 0..MaxByte
MaxByte == 1
\* operations that move the shared count above MaxCount or more than
\* MaxUnderflow below zero (mod 2^64) are not explored
MaxCount == 2
MaxUnderflow == 1
\* threads that call into the buckets at the same time
MaxThreads == 2

\* elem_size of a cell (bytes per element)
ElemSizes == {1}

(***************************************************************************)
(* Program constants.                                                      *)
(***************************************************************************)
DEFAULT_CAPACITY_POW2 == 5
UID_UNLOCKED == 0
UID_LOCKED == 1

(***************************************************************************)
(* u64 / usize: four limbs of 16 bits, least significant first.            *)
(***************************************************************************)
Limb == 2 ^ 16

U64(n) == <<n % Limb, (n \div Limb) % Limb, 0, 0>>

U64Small(x) == x[3] = 0 /\ x[4] = 0 /\ x[2] < 16384

U64ToNat(x) == x[1] + x[2] * Limb

U64Lt(x, y) ==
    \/ x[4] < y[4]
    \/ x[4] = y[4] /\ x[3] < y[3]
    \/ x[4] = y[4] /\ x[3] = y[3] /\ x[2] < y[2]
    \/ x[4] = y[4] /\ x[3] = y[3] /\ x[2] = y[2] /\ x[1] < y[1]

\* x * c on u64 for a small c: the wrapped product and whether it overflowed
U64Mul(x, c) ==
    LET p1 == x[1] * c
        p2 == x[2] * c + (p1 \div Limb)
        p3 == x[3] * c + (p2 \div Limb)
        p4 == x[4] * c + (p3 \div Limb)
    IN  [val |-> <<p1 % Limb, p2 % Limb, p3 % Limb, p4 % Limb>>,
         overflow |-> (p4 \div Limb) > 0]

\* x + k on u64 for a small k: the wrapped sum and whether it overflowed
U64Add(x, k) ==
    LET s1 == x[1] + k
        s2 == x[2] + (s1 \div Limb)
        s3 == x[3] + (s2 \div Limb)
        s4 == x[4] + (s3 \div Limb)
    IN  [val |-> <<s1 % Limb, s2 % Limb, s3 % Limb, s4 % Limb>>,
         overflow |-> (s4 \div Limb) > 0]

\* mutant: the increment is lost
fetch_add_lost(x) == x

\* AtomicU64::fetch_add(1): wraps around on overflow
fetch_add(x) == U64Add(x, 1).val

\* mutant: the decrement is lost
fetch_sub_lost(x) == x

\* AtomicU64::fetch_sub(1): wraps around on underflow
fetch_sub(x) ==
    IF x[1] > 0 THEN <<x[1] - 1, x[2], x[3], x[4]>>
    ELSE IF x[2] > 0 THEN <<Limb - 1, x[2] - 1, x[3], x[4]>>
    ELSE IF x[3] > 0 THEN <<Limb - 1, Limb - 1, x[3] - 1, x[4]>>
    ELSE IF x[4] > 0 THEN <<Limb - 1, Limb - 1, Limb - 1, x[4] - 1>>
    ELSE <<Limb - 1, Limb - 1, Limb - 1, Limb - 1>>

\* 2^64 - n for 1 <= n < 2^16
U64Neg(n) == <<Limb - n, Limb - 1, Limb - 1, Limb - 1>>

\* the native (little-endian) bytes of a u64 below 256
to_ne_bytes(n) == [k \in 1..8 |-> IF k = 1 THEN n ELSE 0]

Pow2(n) == 2 ^ n

\* 1u64 << n for a u8 n.  With overflow checks n >= 64 panics; without
\* them the shift amount is taken modulo 64.
shl_overflows(n) == n >= 64

shl(n) == Pow2(n % 64)

(***************************************************************************)
(* The mapped bytes.  Offsets are 0-based as in the source.                *)
(***************************************************************************)
\* the bytes [off, off + n) of the mapping
slice(mmap, off, n) == SubSeq(mmap, off + 1, off + n)

\* the mapping with bytes written at [off, off + Len(bytes))
RECURSIVE store(_, _, _)
store(mmap, off, bytes) ==
    IF bytes = <<>> THEN mmap
    ELSE store([mmap EXCEPT ![off + 1] = Head(bytes)], off + 1, Tail(bytes))

(***************************************************************************)
(* Header: the u64 lock word at the start of a cell.                       *)
(***************************************************************************)
header_size == 8

Header_lock(mmap, off) == slice(mmap, off, header_size)

\* mutant: reports the lock as taken without writing the lock word
Header_try_lock_no_write(mmap, off) ==
    [mmap |-> mmap, ret |-> Header_lock(mmap, off) = to_ne_bytes(UID_UNLOCKED)]

Header_try_lock(mmap, off) ==
    IF Header_lock(mmap, off) = to_ne_bytes(UID_UNLOCKED)
    THEN [mmap |-> store(mmap, off, to_ne_bytes(UID_LOCKED)), ret |-> TRUE]
    ELSE [mmap |-> mmap, ret |-> FALSE]

\* mutant: the assert_eq! is missing
Header_unlock_no_assert(mmap, off) ==
    [panic |-> FALSE, mmap |-> store(mmap, off, to_ne_bytes(UID_UNLOCKED))]

\* mutant: the reset runs one byte past the lock word
Header_unlock_wide(mmap, off) ==
    IF Header_lock(mmap, off) # to_ne_bytes(UID_LOCKED)
    THEN [panic |-> TRUE, mmap |-> mmap]
    ELSE [panic |-> FALSE,
          mmap |-> store(mmap, off, to_ne_bytes(UID_UNLOCKED) \o <<0>>)]

\* mutant: the lock word is checked but never reset
Header_unlock_no_write(mmap, off) ==
    [panic |-> Header_lock(mmap, off) # to_ne_bytes(UID_LOCKED), mmap |-> mmap]

Header_unlock(mmap, off) ==
    IF Header_lock(mmap, off) # to_ne_bytes(UID_LOCKED)
    THEN [panic |-> TRUE, mmap |-> mmap]
    ELSE [panic |-> FALSE, mmap |-> store(mmap, off, to_ne_bytes(UID_UNLOCKED))]

Header_is_unlocked(mmap, off) == Header_lock(mmap, off) = to_ne_bytes(UID_UNLOCKED)

(***************************************************************************)
(* BucketStorage.  A bucket is a record                                    *)
(*   [live, path, mmap, cell_size, capacity_pow2, count]                   *)
(* where path names the backing file and count the shared Arc<AtomicU64>.  *)
(***************************************************************************)
NoBucket == [live |-> FALSE, path |-> 0, mmap |-> <<>>, cell_size |-> 0,
             capacity_pow2 |-> 0, count |-> 0]

capacity(b) == shl(b.capacity_pow2)

capacity_bytes(b) == capacity(b) * b.cell_size

\* ix < self.capacity() on u64
InRange(b, ix) == U64Lt(ix, U64(capacity(b)))

\* (ix * cell_size) as usize, then &mmap[ix..ix + size_of::<Header>()].
\* With overflow checks the arithmetic panics on overflow, without them it
\* wraps; the slice panics unless start <= end <= len.
header_mut_ptr(b, ix, overflow_checks) ==
    LET start == U64Mul(ix, b.cell_size)
        end == U64Add(start.val, header_size)
    IN  IF overflow_checks /\ (start.overflow \/ end.overflow)
        THEN [panic |-> TRUE, off |-> 0]
        ELSE IF U64Lt(end.val, start.val) \/ U64Lt(U64(Len(b.mmap)), end.val)
        THEN [panic |-> TRUE, off |-> 0]
        ELSE [panic |-> FALSE, off |-> U64ToNat(start.val)]

header_ptr(b, ix, overflow_checks) == header_mut_ptr(b, ix, overflow_checks)

is_free(b, ix, overflow_checks) ==
    LET h == header_ptr(b, ix, overflow_checks)
    IN  IF h.panic THEN [panic |-> TRUE, ret |-> FALSE]
        ELSE [panic |-> FALSE, ret |-> Header_is_unlocked(b.mmap, h.off)]

try_lock(b, ix, overflow_checks) ==
    LET h == header_mut_ptr(b, ix, overflow_checks)
    IN  IF h.panic THEN [panic |-> TRUE, mmap |-> b.mmap, ret |-> FALSE]
        ELSE LET t == Header_try_lock(b.mmap, h.off)
             IN  [panic |-> FALSE, mmap |-> t.mmap, ret |-> t.ret]

\* mutant: the count is incremented before try_lock is consulted
allocate_count_first(b, cnt, ix, is_resizing, overflow_checks) ==
    IF ~InRange(b, ix) THEN [res |-> "panic", mmap |-> b.mmap, count |-> cnt]
    ELSE LET t == try_lock(b, ix, overflow_checks)
         IN  [res |-> IF t.ret THEN "Ok" ELSE "AlreadyAllocated", mmap |-> t.mmap,
              count |-> IF ~is_resizing THEN fetch_add(cnt) ELSE cnt]

\* mutant: the index assert is missing
allocate_no_assert(b, cnt, ix, is_resizing, overflow_checks) ==
    LET t == try_lock(b, ix, overflow_checks)
    IN  IF t.panic THEN [res |-> "panic", mmap |-> b.mmap, count |-> cnt]
        ELSE IF t.ret
        THEN [res |-> "Ok", mmap |-> t.mmap,
              count |-> IF ~is_resizing THEN fetch_add(cnt) ELSE cnt]
        ELSE [res |-> "AlreadyAllocated", mmap |-> t.mmap, count |-> cnt]

\* allocate(ix, is_resizing) on bucket b whose shared count holds cnt
allocate(b, cnt, ix, is_resizing, overflow_checks) ==
    IF ~InRange(b, ix) THEN [res |-> "panic", mmap |-> b.mmap, count |-> cnt]
    ELSE LET t == try_lock(b, ix, overflow_checks)
         IN  IF t.panic THEN [res |-> "panic", mmap |-> b.mmap, count |-> cnt]
             ELSE IF t.ret
             THEN [res |-> "Ok", mmap |-> t.mmap,
                   count |-> IF ~is_resizing THEN fetch_add(cnt) ELSE cnt]
             ELSE [res |-> "AlreadyAllocated", mmap |-> t.mmap, count |-> cnt]

\* mutant: the count is not decremented
free_keep_count(b, cnt, ix, overflow_checks) ==
    IF ~InRange(b, ix) THEN [res |-> "panic", mmap |-> b.mmap, count |-> cnt]
    ELSE LET h == header_mut_ptr(b, ix, overflow_checks)
             u == Header_unlock(b.mmap, h.off)
         IN  IF h.panic \/ u.panic
             THEN [res |-> "panic", mmap |-> b.mmap, count |-> cnt]
             ELSE [res |-> "Ok", mmap |-> u.mmap, count |-> cnt]

\* free(ix) on bucket b whose shared count holds cnt
free(b, cnt, ix, overflow_checks) ==
    IF ~InRange(b, ix) THEN [res |-> "panic", mmap |-> b.mmap, count |-> cnt]
    ELSE LET h == header_mut_ptr(b, ix, overflow_checks)
         IN  IF h.panic THEN [res |-> "panic", mmap |-> b.mmap, count |-> cnt]
             ELSE LET u == Header_unlock(b.mmap, h.off)
                  IN  IF u.panic
                      THEN [res |-> "panic", mmap |-> b.mmap, count |-> cnt]
                      ELSE [res |-> "Ok", mmap |-> u.mmap, count |-> fetch_sub(cnt)]

get_start_offset(b, ix) ==
    IF ~InRange(b, ix) THEN [panic |-> TRUE, start |-> 0]
    ELSE [panic |-> FALSE, start |-> b.cell_size * U64ToNat(ix) + header_size]

\* &mmap[start..start + size_of::<T>()] with size = size_of::<T>()
get(b, ix, size) ==
    LET s == get_start_offset(b, ix)
    IN  IF s.panic \/ s.start + size > Len(b.mmap)
        THEN [panic |-> TRUE, start |-> 0, end |-> 0]
        ELSE [panic |-> FALSE, start |-> s.start, end |-> s.start + size]

get_cell_slice(b, ix, size, len) ==
    LET s == get_start_offset(b, ix)
    IN  IF s.panic \/ s.start + size * len > Len(b.mmap)
        THEN [panic |-> TRUE, start |-> 0, end |-> 0]
        ELSE [panic |-> FALSE, start |-> s.start, end |-> s.start + size * len]

get_mut(b, ix, size) ==
    LET s == get_start_offset(b, ix)
    IN  IF s.panic \/ s.start + size > Len(b.mmap)
        THEN [panic |-> TRUE, start |-> 0, end |-> 0]
        ELSE [panic |-> FALSE, start |-> s.start, end |-> s.start + size]

get_mut_cell_slice(b, ix, size, len) ==
    LET s == get_start_offset(b, ix)
    IN  IF s.panic \/ s.start + size * len > Len(b.mmap)
        THEN [panic |-> TRUE, start |-> 0, end |-> 0]
        ELSE [panic |-> FALSE, start |-> s.start, end |-> s.start + size * len]

\* mutant: the mapped file holds an earlier bucket's locked headers
new_map_stale(cell_size, capacity_pow2) ==
    [k \in 1..(shl(capacity_pow2) * cell_size) |->
        IF k % cell_size = 1 THEN UID_LOCKED ELSE 0]

\* the file is created, extended to capacity * cell_size bytes and mapped:
\* every byte reads zero
new_map(cell_size, capacity_pow2) ==
    [k \in 1..(shl(capacity_pow2) * cell_size) |-> 0]

\* path is the name new_map drew for the file
new_with_capacity(num_elems, elem_size, capacity_pow2, count, path) ==
    LET cell_size == elem_size * num_elems + header_size
    IN  [live |-> TRUE, path |-> path, mmap |-> new_map(cell_size, capacity_pow2),
         cell_size |-> cell_size, capacity_pow2 |-> capacity_pow2, count |-> count]

new(num_elems, elem_size, count, path) ==
    new_with_capacity(num_elems, elem_size, DEFAULT_CAPACITY_POW2, count, path)

\* the for_each of copy_contents from cell i on; dst is the new mapping
RECURSIVE copy_cells(_, _, _, _)
copy_cells(dst, old_bucket, index_grow, i) ==
    IF i >= capacity(old_bucket) THEN [panic |-> FALSE, mmap |-> dst]
    ELSE IF is_free(old_bucket, U64(i), TRUE).ret
    THEN copy_cells(dst, old_bucket, index_grow, i + 1)
    ELSE LET old_ix == i * old_bucket.cell_size
             new_ix == old_ix * index_grow
         IN  IF new_ix + old_bucket.cell_size > Len(dst)
             THEN [panic |-> TRUE, mmap |-> dst]
             ELSE copy_cells(
                    store(dst, new_ix,
                          slice(old_bucket.mmap, old_ix, old_bucket.cell_size)),
                    old_bucket, index_grow, i + 1)

\* mutant: the cells keep their index, index_grow is not applied
copy_contents_same_index(self, old_bucket) ==
    copy_cells(self.mmap, old_bucket, 1, 0)

copy_contents(self, old_bucket) ==
    LET increment == self.capacity_pow2 - old_bucket.capacity_pow2
        index_grow == Pow2(increment)
    IN  copy_cells(self.mmap, old_bucket, index_grow, 0)

\* new_resized(bucket, capacity_pow_2, num_elems, elem_size); bucket is
\* NoBucket for None, and default_count names a new zeroed counter
new_resized(bucket, capacity_pow_2, num_elems, elem_size, default_count, path) ==
    LET new_bucket == new_with_capacity(num_elems, elem_size, capacity_pow_2,
                        IF bucket.live THEN bucket.count ELSE default_count, path)
    IN  IF bucket.live
        THEN LET c == copy_contents(new_bucket, bucket)
             IN  [panic |-> c.panic, b |-> [new_bucket EXCEPT !.mmap = c.mmap]]
        ELSE [panic |-> FALSE, b |-> new_bucket]

(***************************************************************************)
(* State.                                                                  *)
(*   buckets : the BucketStorage objects alive, oldest first               *)
(*   counts  : the value of every shared Arc<AtomicU64>                    *)
(*   last    : the last call and what it returned; old is the value the    *)
(*             bucket's count held before the call                         *)
(*   files   : the names of the backing files that exist                   *)
(*   threads : the call each thread is in, where it stands in it, and what *)
(*             its last call returned                                      *)
(***************************************************************************)
VARIABLES buckets, counts, last, files, threads

vars == <<buckets, counts, last, files, threads>>

ArenaIds == 1..MaxArenas

Live == {a \in ArenaIds : buckets[a].live}

\* the bucket constructed last
Newest == {a \in Live : \A x \in Live : x <= a}

U64Zero == U64(0)

\* 2^63
BigIx == {<<0, 0, 0, 32768>>}

\* the indices handed to the indexed operations of bucket b: the first and
\* the last cell, the first index past the end, and a large one
IxInputs(b) == {U64(0), U64(capacity(b) - 1), U64(capacity(b))} \cup BigIx

\* the first and the last cell
ValidIx(b) == {U64(0), U64(capacity(b) - 1)}

\* the build: overflow checks on or off.  It shows only past the end.
Builds(b, ix) == IF InRange(b, ix) THEN {TRUE} ELSE BOOLEAN

\* a capacity exponent as wide as u64
BigPow == {64}

\* the build shows in a shift only when the shift overflows
ShiftBuilds(n) == IF shl_overflows(n) THEN BOOLEAN ELSE {TRUE}

\* bytes of payload in a cell of bucket b
payload_size(b) == b.cell_size - header_size

\* the shared count stays in the explored window around zero
CountOk(c) ==
    \/ U64Small(c) /\ U64ToNat(c) <= MaxCount
    \/ ~U64Lt(c, U64Neg(MaxUnderflow))

NoLast == [op |-> "none", a |-> 0, src |-> 0, ix |-> U64Zero, is_resizing |-> FALSE,
           res |-> "none", old |-> U64Zero]

Call(op, a, src, ix, is_resizing, res, old) ==
    [op |-> op, a |-> a, src |-> src, ix |-> ix, is_resizing |-> is_resizing,
     res |-> res, old |-> old]

ThreadIds == 1..MaxThreads

\* a thread outside any call
IdleThread == [pc |-> "idle", op |-> "none", a |-> 0, ix |-> U64Zero, seen |-> <<>>,
               ret |-> "none"]

Init ==
    /\ buckets = [a \in ArenaIds |-> NoBucket]
    /\ counts = [c \in ArenaIds |-> U64Zero]
    /\ last = NoLast
    /\ files = {}
    /\ threads = [t \in ThreadIds |-> IdleThread]

\* a new bucket takes an empty slot
FreeSlot(a) == ~buckets[a].live

CountUsed(c) == \E a \in Live : buckets[a].count = c

\* Arc::default(): a counter no bucket holds, which reads zero
DefaultCount ==
    IF \A c \in ArenaIds : CountUsed(c) THEN 0
    ELSE CHOOSE c \in ArenaIds : ~CountUsed(c) /\ \A x \in 1..(c - 1) : CountUsed(x)

\* the name new_map draws for the file: one that no existing file has
NewPath == CHOOSE f \in 1..(MaxArenas + 1) :
               f \notin files /\ \A x \in 1..(f - 1) : x \in files

New(a, num_elems, elem_size) ==
    /\ FreeSlot(a)
    /\ buckets' = [buckets EXCEPT ![a] = new(num_elems, elem_size, DefaultCount, NewPath)]
    /\ files' = files \cup {NewPath}
    /\ last' = Call("new", a, 0, U64Zero, FALSE, "Ok", counts[DefaultCount])
    /\ UNCHANGED <<counts, threads>>

\* new_with_capacity; with overflow checks the shift in new_map panics for
\* capacity_pow2 >= 64 and no bucket is built
NewWithCapacity(a, num_elems, elem_size, capacity_pow2, overflow_checks) ==
    /\ FreeSlot(a)
    /\ LET panic == overflow_checks /\ shl_overflows(capacity_pow2)
       IN  /\ buckets' = IF panic THEN buckets
                         ELSE [buckets EXCEPT ![a] =
                                 new_with_capacity(num_elems, elem_size, capacity_pow2,
                                                   DefaultCount, NewPath)]
           /\ files' = IF panic THEN files ELSE files \cup {NewPath}
           /\ last' = Call("new_with_capacity", a, 0, U64Zero, FALSE,
                           IF panic THEN "panic" ELSE "Ok", counts[DefaultCount])
    /\ UNCHANGED <<counts, threads>>

\* mutant: growth moves the cells, the source mapping is left zeroed
NewResized_clears_source(a, src, capacity_pow_2, num_elems, elem_size) ==
    /\ FreeSlot(a)
    /\ LET bucket == IF src = 0 THEN NoBucket ELSE buckets[src]
           r == new_resized(bucket, capacity_pow_2, num_elems, elem_size, DefaultCount,
                            NewPath)
       IN  /\ buckets' = [x \in ArenaIds |->
                IF x = a /\ ~r.panic THEN r.b
                ELSE IF x = src
                THEN [buckets[x] EXCEPT !.mmap = [k \in 1..Len(buckets[x].mmap) |-> 0]]
                ELSE buckets[x]]
           /\ files' = IF r.panic THEN files ELSE files \cup {NewPath}
           /\ last' = Call("new_resized", a, src, U64Zero, FALSE,
                           IF r.panic THEN "panic" ELSE "Ok", counts[r.b.count])
    /\ UNCHANGED <<counts, threads>>

\* new_resized; src = 0 stands for bucket = None.  A panic while copying
\* unwinds and drops the new bucket, which removes its file again.
NewResized(a, src, capacity_pow_2, num_elems, elem_size) ==
    /\ FreeSlot(a)
    /\ LET bucket == IF src = 0 THEN NoBucket ELSE buckets[src]
           r == new_resized(bucket, capacity_pow_2, num_elems, elem_size, DefaultCount,
                            NewPath)
       IN  /\ buckets' = IF r.panic THEN buckets ELSE [buckets EXCEPT ![a] = r.b]
           /\ files' = IF r.panic THEN files ELSE files \cup {NewPath}
           /\ last' = Call("new_resized", a, src, U64Zero, FALSE,
                           IF r.panic THEN "panic" ELSE "Ok", counts[r.b.count])
    /\ UNCHANGED <<counts, threads>>

Allocate(a, ix, is_resizing, overflow_checks) ==
    /\ buckets[a].live
    /\ LET c == buckets[a].count
           r == allocate(buckets[a], counts[c], ix, is_resizing, overflow_checks)
       IN  /\ CountOk(r.count)
           /\ buckets' = [buckets EXCEPT ![a].mmap = r.mmap]
           /\ counts' = [counts EXCEPT ![c] = r.count]
           /\ last' = Call("allocate", a, 0, ix, is_resizing, r.res, counts[c])
    /\ UNCHANGED <<files, threads>>

Free(a, ix, overflow_checks) ==
    /\ buckets[a].live
    /\ LET c == buckets[a].count
           r == free(buckets[a], counts[c], ix, overflow_checks)
       IN  /\ CountOk(r.count)
           /\ buckets' = [buckets EXCEPT ![a].mmap = r.mmap]
           /\ counts' = [counts EXCEPT ![c] = r.count]
           /\ last' = Call("free", a, 0, ix, FALSE, r.res, counts[c])
    /\ UNCHANGED <<files, threads>>

IsFree(a, ix, overflow_checks) ==
    /\ buckets[a].live
    /\ LET r == is_free(buckets[a], ix, overflow_checks)
       IN  last' = Call("is_free", a, 0, ix, FALSE,
                        IF r.panic THEN "panic" ELSE IF r.ret THEN "true" ELSE "false",
                        counts[buckets[a].count])
    /\ UNCHANGED <<buckets, counts, files, threads>>

\* get::<T>(ix) with size_of::<T>() = size
Get(a, ix, size) ==
    /\ buckets[a].live
    /\ LET r == get(buckets[a], ix, size)
       IN  last' = Call("get", a, 0, ix, FALSE, IF r.panic THEN "panic" ELSE "Ok",
                        counts[buckets[a].count])
    /\ UNCHANGED <<buckets, counts, files, threads>>

\* get_cell_slice::<u8>(ix, len)
GetCellSlice(a, ix, len) ==
    /\ buckets[a].live
    /\ LET r == get_cell_slice(buckets[a], ix, 1, len)
       IN  last' = Call("get_cell_slice", a, 0, ix, FALSE,
                        IF r.panic THEN "panic" ELSE "Ok", counts[buckets[a].count])
    /\ UNCHANGED <<buckets, counts, files, threads>>

\* *get_mut::<T>(ix) = value, T being the whole payload and every byte of
\* the value v
GetMut(a, ix, v) ==
    /\ buckets[a].live
    /\ LET b == buckets[a]
           r == get_mut(b, ix, payload_size(b))
       IN  /\ buckets' = IF r.panic THEN buckets
                         ELSE [buckets EXCEPT ![a].mmap =
                                 store(b.mmap, r.start, [k \in 1..payload_size(b) |-> v])]
           /\ last' = Call("get_mut", a, 0, ix, FALSE,
                           IF r.panic THEN "panic" ELSE "Ok", counts[b.count])
    /\ UNCHANGED <<counts, files, threads>>

\* get_mut_cell_slice::<u8>(ix, len).fill(v)
GetMutCellSlice(a, ix, len, v) ==
    /\ buckets[a].live
    /\ LET b == buckets[a]
           r == get_mut_cell_slice(b, ix, 1, len)
       IN  /\ buckets' = IF r.panic THEN buckets
                         ELSE [buckets EXCEPT ![a].mmap =
                                 store(b.mmap, r.start, [k \in 1..len |-> v])]
           /\ last' = Call("get_mut_cell_slice", a, 0, ix, FALSE,
                           IF r.panic THEN "panic" ELSE "Ok", counts[b.count])
    /\ UNCHANGED <<counts, files, threads>>

\* mutant: the drop removes the directory of the files
Drop_removes_all(a) ==
    /\ buckets[a].live
    /\ buckets' = [buckets EXCEPT ![a] = NoBucket]
    /\ files' = {}
    /\ counts' = IF \E x \in Live \ {a} : buckets[x].count = buckets[a].count
                 THEN counts
                 ELSE [counts EXCEPT ![buckets[a].count] = U64Zero]
    /\ last' = Call("drop", a, 0, U64Zero, FALSE, "Ok", counts[buckets[a].count])
    /\ UNCHANGED threads

\* drop(bucket): remove_file(path), and the mapping is released; a count no
\* other bucket holds is released with it.
Drop(a) ==
    /\ buckets[a].live
    /\ buckets' = [buckets EXCEPT ![a] = NoBucket]
    /\ files' = files \ {buckets[a].path}
    /\ counts' = IF \E x \in Live \ {a} : buckets[x].count = buckets[a].count
                 THEN counts
                 ELSE [counts EXCEPT ![buckets[a].count] = U64Zero]
    /\ last' = Call("drop", a, 0, U64Zero, FALSE, "Ok", counts[buckets[a].count])
    /\ UNCHANGED threads

(***************************************************************************)
(* Threads.  A call of allocate(ix, false) or free(ix) by a thread takes   *)
(* three steps: the read of the lock word, the write of the lock word, the *)
(* atomic update of the count.  A thread keeps the result of its last      *)
(* call in ret.  With exclusive, the caller lets a call on a cell start    *)
(* only when no other call on that cell is under way.                      *)
(***************************************************************************)
Busy(t) == threads[t].pc # "idle"

Quiescent == \A t \in ThreadIds : ~Busy(t)

OthersOff(t, a, ix) ==
    \A u \in ThreadIds \ {t} : ~(Busy(u) /\ threads[u].a = a /\ threads[u].ix = ix)

Return(t, ret) == [threads EXCEPT ![t] = [IdleThread EXCEPT !.ret = ret]]

\* byte offset of the header of the cell thread t is working on
HeaderOff(t) == header_mut_ptr(buckets[threads[t].a], threads[t].ix, TRUE).off

\* allocate: the index assert, then the read of self.lock in try_lock
AllocateCall(t, a, ix, exclusive) ==
    /\ ~Busy(t)
    /\ buckets[a].live
    /\ InRange(buckets[a], ix)
    /\ exclusive => OthersOff(t, a, ix)
    /\ threads' = [threads EXCEPT ![t] =
          [pc |-> "try_lock", op |-> "allocate", a |-> a, ix |-> ix,
           seen |-> Header_lock(buckets[a].mmap,
                                header_mut_ptr(buckets[a], ix, TRUE).off),
           ret |-> "none"]]
    /\ UNCHANGED <<buckets, counts, last, files>>

\* mutant: the lock word is not written
AllocateLock_no_write(t) ==
    /\ threads[t].pc = "try_lock"
    /\ IF threads[t].seen = to_ne_bytes(UID_UNLOCKED)
       THEN threads' = [threads EXCEPT ![t].pc = "fetch_add"]
       ELSE threads' = Return(t, "AlreadyAllocated")
    /\ UNCHANGED <<buckets, counts, last, files>>

\* try_lock after the read: self.lock = UID_LOCKED when the value read was
\* UID_UNLOCKED, else allocate returns AlreadyAllocated
AllocateLock(t) ==
    /\ threads[t].pc = "try_lock"
    /\ IF threads[t].seen = to_ne_bytes(UID_UNLOCKED)
       THEN /\ buckets' = [buckets EXCEPT ![threads[t].a].mmap =
                             store(@, HeaderOff(t), to_ne_bytes(UID_LOCKED))]
            /\ threads' = [threads EXCEPT ![t].pc = "fetch_add"]
       ELSE /\ threads' = Return(t, "AlreadyAllocated")
            /\ UNCHANGED buckets
    /\ UNCHANGED <<counts, last, files>>

\* count.fetch_add(1), and allocate returns Ok
AllocateCount(t) ==
    /\ threads[t].pc = "fetch_add"
    /\ LET c == buckets[threads[t].a].count
       IN  /\ CountOk(fetch_add(counts[c]))
           /\ counts' = [counts EXCEPT ![c] = fetch_add(counts[c])]
    /\ threads' = Return(t, "Ok")
    /\ UNCHANGED <<buckets, last, files>>

\* free: the index assert, then the assert_eq! on self.lock in unlock
FreeCall(t, a, ix, exclusive) ==
    /\ ~Busy(t)
    /\ buckets[a].live
    /\ InRange(buckets[a], ix)
    /\ exclusive => OthersOff(t, a, ix)
    /\ threads' =
          IF Header_lock(buckets[a].mmap, header_mut_ptr(buckets[a], ix, TRUE).off)
               # to_ne_bytes(UID_LOCKED)
          THEN Return(t, "panic")
          ELSE [threads EXCEPT ![t] =
                  [pc |-> "unlock", op |-> "free", a |-> a, ix |-> ix,
                   seen |-> to_ne_bytes(UID_LOCKED), ret |-> "none"]]
    /\ UNCHANGED <<buckets, counts, last, files>>

\* unlock after the assert: self.lock = UID_UNLOCKED
FreeUnlock(t) ==
    /\ threads[t].pc = "unlock"
    /\ buckets' = [buckets EXCEPT ![threads[t].a].mmap =
                     store(@, HeaderOff(t), to_ne_bytes(UID_UNLOCKED))]
    /\ threads' = [threads EXCEPT ![t].pc = "fetch_sub"]
    /\ UNCHANGED <<counts, last, files>>

\* count.fetch_sub(1), and free returns
FreeCount(t) ==
    /\ threads[t].pc = "fetch_sub"
    /\ LET c == buckets[threads[t].a].count
       IN  /\ CountOk(fetch_sub(counts[c]))
           /\ counts' = [counts EXCEPT ![c] = fetch_sub(counts[c])]
    /\ threads' = Return(t, "Ok")
    /\ UNCHANGED <<buckets, last, files>>

(***************************************************************************)
(* Spec: one bucket and every operation on it.                             *)
(***************************************************************************)
Next ==
    \/ \E n \in 1..MaxNumElems, e \in ElemSizes : New(1, n, e)
    \/ \E n \in 1..MaxNumElems, e \in ElemSizes, p \in 0..MaxPow2 \cup BigPow :
         \E oc \in ShiftBuilds(p) : NewWithCapacity(1, n, e, p, oc)
    \/ \E n \in 1..MaxNumElems, e \in ElemSizes, p \in 0..MaxPow2 :
         NewResized(1, 0, p, n, e)
    \/ \E ix \in IxInputs(buckets[1]), r \in BOOLEAN :
         \E oc \in Builds(buckets[1], ix) : Allocate(1, ix, r, oc)
    \/ \E ix \in IxInputs(buckets[1]) :
         \E oc \in Builds(buckets[1], ix) : Free(1, ix, oc)
    \/ \E ix \in IxInputs(buckets[1]) :
         \E oc \in Builds(buckets[1], ix) : IsFree(1, ix, oc)
    \/ \E ix \in IxInputs(buckets[1]) : Get(1, ix, payload_size(buckets[1]))
    \/ \E ix \in IxInputs(buckets[1]) : GetCellSlice(1, ix, payload_size(buckets[1]))
    \/ \E ix \in IxInputs(buckets[1]), v \in 0..MaxByte : GetMut(1, ix, v)
    \/ \E ix \in IxInputs(buckets[1]), v \in 0..MaxByte :
         GetMutCellSlice(1, ix, payload_size(buckets[1]), v)
    \/ Drop(1)

Spec == Init /\ [][Next]_vars

(***************************************************************************)
(* SpecGrow: a bucket is built and filled, then grown by new_resized; the  *)
(* caller drops the older bucket and goes on allocating and freeing in the *)
(* new one, which may grow again.                                          *)
(***************************************************************************)
NextGrow ==
    \/ \E n \in 1..MaxNumElems, e \in ElemSizes, p \in 0..MaxPow2 :
         Live = {} /\ NewWithCapacity(1, n, e, p, TRUE)
    \/ \E src \in Newest, n \in 1..MaxNumElems, e \in ElemSizes, d \in 0..MaxGrow :
         /\ src + 1 \in ArenaIds
         /\ buckets[src].capacity_pow2 + d <= MaxPow2 + MaxGrow
         /\ NewResized(src + 1, src, buckets[src].capacity_pow2 + d, n, e)
    \/ \E a \in Live : \E ix \in ValidIx(buckets[a]) :
         Live = {a} /\ Allocate(a, ix, FALSE, TRUE)
    \/ \E a \in Live : \E ix \in ValidIx(buckets[a]) :
         Live = {a} /\ Free(a, ix, TRUE)
    \/ \E ix \in ValidIx(buckets[1]), v \in 0..MaxByte :
         Live = {1} /\ GetMut(1, ix, v)
    \/ \E a \in Live : (Live = {a} \/ a \notin Newest) /\ Drop(a)

SpecGrow == Init /\ [][NextGrow]_vars

(***************************************************************************)
(* SpecAllocFree: one bucket built with a new count, and only              *)
(* allocate(ix, false) and free(ix) on it.                                 *)
(***************************************************************************)
NextAllocFree ==
    \/ \E n \in 1..MaxNumElems, e \in ElemSizes : New(1, n, e)
    \/ \E n \in 1..MaxNumElems, e \in ElemSizes, p \in 0..MaxPow2 :
         NewWithCapacity(1, n, e, p, TRUE)
    \/ \E n \in 1..MaxNumElems, e \in ElemSizes, p \in 0..MaxPow2 :
         NewResized(1, 0, p, n, e)
    \/ \E ix \in IxInputs(buckets[1]) :
         \E oc \in Builds(buckets[1], ix) : Allocate(1, ix, FALSE, oc)
    \/ \E ix \in IxInputs(buckets[1]) :
         \E oc \in Builds(buckets[1], ix) : Free(1, ix, oc)
    \/ Drop(1)

SpecAllocFree == Init /\ [][NextAllocFree]_vars

(***************************************************************************)
(* SpecThreads: the threads call allocate(ix, false) and free(ix) on the   *)
(* live buckets, one call per cell at a time.  While no call is under way  *)
(* the bucket may be grown to a new one of the same cell size, which       *)
(* shares the count; the threads go on in both.                            *)
(***************************************************************************)
NextThreads ==
    \/ \E n \in 1..MaxNumElems, e \in ElemSizes, p \in 0..MaxPow2 :
         Live = {} /\ Quiescent /\ NewWithCapacity(1, n, e, p, TRUE)
    \/ \E src \in Newest, n \in 1..MaxNumElems, e \in ElemSizes, d \in 0..MaxGrow :
         /\ Quiescent
         /\ src + 1 \in ArenaIds
         /\ e * n + header_size = buckets[src].cell_size
         /\ buckets[src].capacity_pow2 + d <= MaxPow2 + MaxGrow
         /\ NewResized(src + 1, src, buckets[src].capacity_pow2 + d, n, e)
    \/ \E t \in ThreadIds, a \in Live : \E ix \in ValidIx(buckets[a]) :
         AllocateCall(t, a, ix, TRUE)
    \/ \E t \in ThreadIds : AllocateLock(t)
    \/ \E t \in ThreadIds : AllocateCount(t)
    \/ \E t \in ThreadIds, a \in Live : \E ix \in ValidIx(buckets[a]) :
         FreeCall(t, a, ix, TRUE)
    \/ \E t \in ThreadIds : FreeUnlock(t)
    \/ \E t \in ThreadIds : FreeCount(t)
    \/ \E a \in Live : Quiescent /\ (Live = {a} \/ a \notin Newest) /\ Drop(a)

SpecThreads == Init /\ [][NextThreads]_vars

(***************************************************************************)
(* SpecSerial and SpecRace: a bucket is built and every thread calls       *)
(* allocate(ix, false) once, all on the same free cell, the last one of    *)
(* the bucket.  In SpecSerial the caller lets one call at a time work on   *)
(* the cell, in SpecRace the calls run unguarded.                          *)
(***************************************************************************)
Target(b) == U64(capacity(b) - 1)

Build ==
    \/ \E n \in 1..MaxNumElems, e \in ElemSizes : New(1, n, e)
    \/ \E n \in 1..MaxNumElems, e \in ElemSizes, p \in 0..MaxPow2 :
         NewWithCapacity(1, n, e, p, TRUE)
    \/ \E n \in 1..MaxNumElems, e \in ElemSizes, p \in 0..MaxPow2 :
         NewResized(1, 0, p, n, e)

NextSerial ==
    \/ Build
    \/ \E t \in ThreadIds :
         /\ threads[t] = IdleThread /\ buckets[1].live
         /\ AllocateCall(t, 1, Target(buckets[1]), TRUE)
    \/ \E t \in ThreadIds : AllocateLock(t)
    \/ \E t \in ThreadIds : AllocateCount(t)

SpecSerial == Init /\ [][NextSerial]_vars

NextRace ==
    \/ Build
    \/ \E t \in ThreadIds :
         /\ threads[t] = IdleThread /\ buckets[1].live
         /\ AllocateCall(t, 1, Target(buckets[1]), FALSE)
    \/ \E t \in ThreadIds : AllocateLock(t)
    \/ \E t \in ThreadIds : AllocateCount(t)

SpecRace == Init /\ [][NextRace]_vars

(***************************************************************************)
(* Vocabulary of the properties.                                           *)
(***************************************************************************)
Cells(b) == 0..(capacity(b) - 1)

\* is_free(i) returned true
CellFree(b, i) == is_free(b, U64(i), TRUE) = [panic |-> FALSE, ret |-> TRUE]

\* the cell is allocated: is_free(i) returned false
CellOccupied(b, i) == is_free(b, U64(i), TRUE) = [panic |-> FALSE, ret |-> FALSE]

LockWord(b, i) == slice(b.mmap, i * b.cell_size, header_size)

Payload(b, i) == slice(b.mmap, i * b.cell_size + header_size, payload_size(b))

NumLocked(b) == Cardinality({i \in Cells(b) : LockWord(b, i) = to_ne_bytes(UID_LOCKED)})

NumOccupied(b) == Cardinality({i \in Cells(b) : CellOccupied(b, i)})

Constructors == {"new", "new_with_capacity", "new_resized"}

Indexed == {"allocate", "free", "get", "get_mut", "get_cell_slice", "get_mut_cell_slice"}

\* the bucket the last call was made on, and its count
LastBucket == buckets[last.a]

LastCount == counts[LastBucket.count]

(***************************************************************************)
(* C1.  A bucket built by new, new_with_capacity or new_resized(None) has  *)
(* is_free(ix) true at every ix < capacity, and new_resized(None) starts   *)
(* the count at 0.                                                         *)
(***************************************************************************)
C1_FreshAllFree ==
    (last.op \in Constructors /\ last.src = 0 /\ last.res = "Ok") =>
        /\ \A i \in Cells(LastBucket) : CellFree(LastBucket, i)
        /\ last.op = "new_resized" => LastCount = U64Zero

C1_Witness ==
    /\ last.op = "new_resized" /\ last.src = 0 /\ last.res = "Ok"
    /\ capacity(LastBucket) = 2
    /\ \A i \in Cells(LastBucket) : CellFree(LastBucket, i)

(***************************************************************************)
(* C2.  allocate(ix, is_resizing) with ix < capacity returns Ok exactly    *)
(* when the cell was free before the call and AlreadyAllocated exactly     *)
(* when it was allocated; after Ok, is_free(ix) is false and another       *)
(* allocate of ix returns AlreadyAllocated.                                *)
(***************************************************************************)
C2_AllocateResult ==
    [][(last'.op = "allocate" /\ InRange(buckets[last'.a], last'.ix)) =>
        LET a == last'.a
            ix == last'.ix
            i == U64ToNat(ix)
        IN  /\ (last'.res = "Ok") <=> CellFree(buckets[a], i)
            /\ (last'.res = "AlreadyAllocated") <=> CellOccupied(buckets[a], i)
            /\ last'.res = "Ok" =>
                 /\ CellOccupied(buckets'[a], i)
                 /\ \A r \in BOOLEAN :
                      allocate(buckets'[a], counts'[buckets'[a].count], ix, r, TRUE).res
                        = "AlreadyAllocated"]_vars

C2_Witness ==
    /\ last.op = "allocate" /\ last.res = "AlreadyAllocated" /\ ~last.is_resizing
    /\ InRange(LastBucket, last.ix)
    /\ CellOccupied(LastBucket, U64ToNat(last.ix))

(***************************************************************************)
(* C3.  An allocate that returns AlreadyAllocated changes nothing: every   *)
(* lock word, every payload byte and the count stay as they were.          *)
(***************************************************************************)
C3_AlreadyAllocatedNoEffect ==
    [][(last'.op = "allocate" /\ last'.res = "AlreadyAllocated") =>
        (buckets' = buckets /\ counts' = counts)]_vars

C3_Witness ==
    /\ last.op = "allocate" /\ last.res = "AlreadyAllocated" /\ last.is_resizing
    /\ LastCount = U64(1)
    /\ Payload(LastBucket, U64ToNat(last.ix)) # [k \in 1..payload_size(LastBucket) |-> 0]

(***************************************************************************)
(* C4.  free(ix) of an allocated cell makes is_free(ix) true again and a   *)
(* following allocate(ix, false) succeeds; free(ix) right after a          *)
(* successful allocate(ix, false) succeeds and puts the count back to its  *)
(* value before that allocate.  This holds at every free, so the cycle     *)
(* repeats with the same results.                                          *)
(***************************************************************************)
C4_FreeRestores ==
    [][(last'.op = "free" /\ InRange(buckets[last'.a], last'.ix)) =>
        LET a == last'.a
            ix == last'.ix
            i == U64ToNat(ix)
            after_allocate == /\ last.op = "allocate" /\ last.res = "Ok"
                              /\ ~last.is_resizing /\ last.a = a /\ last.ix = ix
        IN  /\ after_allocate => last'.res = "Ok"
            /\ last'.res = "Ok" =>
                 /\ CellFree(buckets'[a], i)
                 /\ allocate(buckets'[a], counts'[buckets'[a].count], ix, FALSE, TRUE).res
                      = "Ok"
                 /\ after_allocate => counts'[buckets'[a].count] = last.old]_vars

C4_Witness ==
    /\ last.op = "free" /\ last.res = "Ok"
    /\ last.old = U64(1) /\ LastCount = U64Zero
    /\ CellFree(LastBucket, U64ToNat(last.ix))

(***************************************************************************)
(* C5.  From a new bucket with count 0, after any sequence of              *)
(* allocate(ix, false) and free(ix), the count equals the number of cells  *)
(* whose lock word is LOCKED.                                              *)
(***************************************************************************)
C5_CountIsLocked ==
    \A a \in Live : counts[buckets[a].count] = U64(NumLocked(buckets[a]))

C5_Witness ==
    /\ last.op = "free" /\ last.res = "Ok"
    /\ NumLocked(LastBucket) = 1 /\ LastCount = U64(1)

(***************************************************************************)
(* C6.  free(ix) of a cell that is already free panics, and nothing has    *)
(* changed when it does: the lock word stays UNLOCKED and the count is     *)
(* not decremented.                                                        *)
(***************************************************************************)
C6_DoubleFreeFatal ==
    [][(/\ last'.op = "free"
        /\ InRange(buckets[last'.a], last'.ix)
        /\ CellFree(buckets[last'.a], U64ToNat(last'.ix))) =>
        /\ last'.res = "panic"
        /\ buckets' = buckets
        /\ counts' = counts]_vars

C6_Witness ==
    /\ last.op = "free" /\ last.res = "panic"
    /\ InRange(LastBucket, last.ix)
    /\ LockWord(LastBucket, U64ToNat(last.ix)) = to_ne_bytes(UID_UNLOCKED)

(***************************************************************************)
(* C7.  allocate, free, get, get_mut, get_cell_slice and                   *)
(* get_mut_cell_slice with ix >= capacity panic, and no lock word,         *)
(* payload byte or count has changed when they do.                         *)
(***************************************************************************)
C7_BadIndexFatal ==
    [][(last'.op \in Indexed /\ ~InRange(buckets[last'.a], last'.ix)) =>
        /\ last'.res = "panic"
        /\ buckets' = buckets
        /\ counts' = counts]_vars

C7_Witness ==
    /\ last.op = "get_mut_cell_slice" /\ last.res = "panic"
    /\ last.ix \in BigIx
    /\ LastBucket.cell_size = 10

(***************************************************************************)
(* C8.  is_free(ix) panics for every u64 ix >= capacity, and for           *)
(* ix < capacity it returns true iff the lock word is UNLOCKED.            *)
(* is_free has no index assert: without overflow checks ix * cell_size     *)
(* wraps, and is_free(2^63) on a bucket of even cell_size reads the        *)
(* header of cell 0.                                                       *)
(***************************************************************************)
C8_IsFreeChecked ==
    last.op = "is_free" =>
        IF InRange(LastBucket, last.ix)
        THEN last.res = IF LockWord(LastBucket, U64ToNat(last.ix)) = to_ne_bytes(UID_UNLOCKED)
                        THEN "true" ELSE "false"
        ELSE last.res = "panic"

(***************************************************************************)
(* C9.  new_resized from a source of exponent p to exponent p + d with     *)
(* the same cell size: every allocated source cell i is allocated at       *)
(* i * 2^d of the new bucket with the same payload bytes, and every other  *)
(* cell of the new bucket is free.                                         *)
(***************************************************************************)
IndexGrow == Pow2(LastBucket.capacity_pow2 - buckets[last.src].capacity_pow2)

C9_GrowthRoundTrip ==
    (/\ last.op = "new_resized" /\ last.res = "Ok" /\ last.src # 0
     /\ LastBucket.cell_size = buckets[last.src].cell_size) =>
        LET old == buckets[last.src]
            S == {i \in Cells(old) : CellOccupied(old, i)}
        IN  /\ \A i \in S :
                 /\ CellOccupied(LastBucket, i * IndexGrow)
                 /\ Payload(LastBucket, i * IndexGrow) = Payload(old, i)
            /\ \A j \in Cells(LastBucket) :
                 (\A i \in S : j # i * IndexGrow) => CellFree(LastBucket, j)

C9_Witness ==
    /\ last.op = "new_resized" /\ last.res = "Ok" /\ last.src # 0
    /\ LastBucket.cell_size = buckets[last.src].cell_size
    /\ IndexGrow = 2
    /\ CellOccupied(buckets[last.src], 1)
    /\ Payload(buckets[last.src], 1) # Payload(buckets[last.src], 0)
    /\ CellOccupied(LastBucket, 2)

(***************************************************************************)
(* C10.  new_resized from a source shares the source's count and leaves    *)
(* its value alone; if the count was the number of allocated source cells  *)
(* it is the number of allocated cells of the new bucket.                  *)
(* copy_contents places the cells by the source's cell_size, so with       *)
(* another cell size the lock words of the new bucket are not where the    *)
(* cells are.                                                              *)
(***************************************************************************)
C10_CountCarriesOver ==
    (last.op = "new_resized" /\ last.res = "Ok" /\ last.src # 0) =>
        /\ LastBucket.count = buckets[last.src].count
        /\ LastCount = last.old
        /\ last.old = U64(NumOccupied(buckets[last.src])) =>
             LastCount = U64(NumOccupied(LastBucket))

(***************************************************************************)
(* C11.  new_resized leaves its source as it was: every lock word and      *)
(* payload byte, the cell_size and the capacity of the source are the same *)
(* after the call, whether the call returns or panics.                     *)
(***************************************************************************)
C11_SourceUnchanged ==
    [][(last'.op = "new_resized" /\ last'.src # 0) =>
        LET before == buckets[last'.src]
            after == buckets'[last'.src]
        IN  /\ after.live
            /\ after.mmap = before.mmap
            /\ after.cell_size = before.cell_size
            /\ capacity(after) = capacity(before)
            /\ \A i \in Cells(before) :
                 LockWord(after, i) = LockWord(before, i) /\ Payload(after, i) = Payload(before, i)]_vars

C11_Witness ==
    /\ last.op = "new_resized" /\ last.res = "Ok" /\ last.src # 0
    /\ LastBucket.cell_size # buckets[last.src].cell_size
    /\ CellOccupied(buckets[last.src], 0)
    /\ Payload(buckets[last.src], 0) # [k \in 1..payload_size(buckets[last.src]) |-> 0]
    /\ NumOccupied(LastBucket) > 0

(***************************************************************************)
(* C12.  capacity() is 2^capacity_pow2 and capacity_bytes() is             *)
(* capacity() * cell_size for every bucket, and allocate and free leave    *)
(* capacity_pow2, cell_size and the capacity alone.                        *)
(* capacity() is 1 << capacity_pow2 on u64 with a u8 exponent.  Without    *)
(* overflow checks the shift amount is taken modulo 64:                    *)
(* new_with_capacity(.., 64, ..) builds a bucket of one cell whose         *)
(* capacity() is 1.                                                        *)
(***************************************************************************)
\* n = 2^p, without computing 2^p
RECURSIVE IsTwoToThe(_, _)
IsTwoToThe(n, p) ==
    IF p = 0 THEN n = 1
    ELSE n > 0 /\ n % 2 = 0 /\ IsTwoToThe(n \div 2, p - 1)

C12_CapacityFixed ==
    [][/\ \A a \in ArenaIds : buckets'[a].live =>
            /\ IsTwoToThe(capacity(buckets'[a]), buckets'[a].capacity_pow2)
            /\ capacity_bytes(buckets'[a]) = capacity(buckets'[a]) * buckets'[a].cell_size
            /\ capacity_bytes(buckets'[a]) = Len(buckets'[a].mmap)
       /\ last'.op \in {"allocate", "free"} =>
            /\ buckets'[last'.a].capacity_pow2 = buckets[last'.a].capacity_pow2
            /\ buckets'[last'.a].cell_size = buckets[last'.a].cell_size
            /\ capacity(buckets'[last'.a]) = capacity(buckets[last'.a])]_vars

(***************************************************************************)
(* C14.  The file of a bucket exists from the construction of the bucket   *)
(* until its drop and not after it: the files that exist are those of the  *)
(* live buckets, one each.  Dropping the source after a growth removes the *)
(* source's file only; the new bucket, its file and its cells stay.        *)
(***************************************************************************)
C14_FileLifetime ==
    [][/\ files' = {buckets'[a].path : a \in {x \in ArenaIds : buckets'[x].live}}
       /\ \A a, x \in ArenaIds :
            (buckets'[a].live /\ buckets'[x].live /\ a # x) =>
                buckets'[a].path # buckets'[x].path
       /\ last'.op = "drop" =>
            /\ buckets[last'.a].path \notin files'
            /\ \A x \in Live \ {last'.a} :
                 buckets'[x] = buckets[x] /\ buckets[x].path \in files']_vars

C14_Witness ==
    /\ last.op = "drop" /\ last.a = 1
    /\ buckets[2].live /\ CellOccupied(buckets[2], 0)
    /\ files = {buckets[2].path}

(***************************************************************************)
(* C15.  Every new_resized from a source, also to another cell size,       *)
(* copies each allocated source cell i, header and payload, to the cell    *)
(* i * g of the new bucket, i.e. to the byte offset i * g * cell_size of   *)
(* the new bucket, so that this cell is allocated.                         *)
(* copy_contents computes the offset as i * old_bucket.cell_size * g: with *)
(* another cell size the bytes do not land on the cell i * g.              *)
(***************************************************************************)
Min(x, y) == IF x <= y THEN x ELSE y

C15_CopyToDestinationCell ==
    (last.op = "new_resized" /\ last.res = "Ok" /\ last.src # 0) =>
        LET old == buckets[last.src]
            n == Min(old.cell_size, LastBucket.cell_size)
        IN  \A i \in Cells(old) : CellOccupied(old, i) =>
                /\ slice(LastBucket.mmap, i * IndexGrow * LastBucket.cell_size, n)
                     = slice(old.mmap, i * old.cell_size, n)
                /\ CellOccupied(LastBucket, i * IndexGrow)

(***************************************************************************)
(* C16.  In every state reached by allocate, free and new_resized (any     *)
(* cell size, any exponent from the source's up, any payload bytes), the   *)
(* lock word of every cell of every live bucket is UNLOCKED or LOCKED.     *)
(* A copy placed by the source's cell_size puts payload bytes of the       *)
(* source into lock words of the new bucket.                               *)
(***************************************************************************)
C16_LockWordTwoValued ==
    \A a \in Live : \A i \in Cells(buckets[a]) :
        LockWord(buckets[a], i) \in {to_ne_bytes(UID_UNLOCKED), to_ne_bytes(UID_LOCKED)}

(***************************************************************************)
(* C20.  A successful allocate(ix, _) or free(ix) changes the lock word of *)
(* cell ix and, unless it is allocate(ix, true), the count of the bucket,  *)
(* and nothing else: the other lock words and every payload byte, those of *)
(* cell ix included, stay, so the payload of a cell outlives free and      *)
(* allocate.                                                               *)
(***************************************************************************)
C20_OnlyLockWordAndCount ==
    [][(last'.op \in {"allocate", "free"} /\ last'.res = "Ok") =>
        LET a == last'.a
            i == U64ToNat(last'.ix)
            c == buckets[a].count
        IN  /\ \A j \in Cells(buckets[a]) :
                 /\ Payload(buckets'[a], j) = Payload(buckets[a], j)
                 /\ j # i => LockWord(buckets'[a], j) = LockWord(buckets[a], j)
            /\ LockWord(buckets'[a], i) # LockWord(buckets[a], i)
            /\ Len(buckets'[a].mmap) = Len(buckets[a].mmap)
            /\ [buckets' EXCEPT ![a].mmap = buckets[a].mmap] = buckets
            /\ \A x \in ArenaIds \ {c} : counts'[x] = counts[x]
            /\ (last'.op = "allocate" /\ last'.is_resizing) => counts'[c] = counts[c]
            /\ files' = files]_vars

C20_Witness ==
    /\ last.op = "free" /\ last.res = "Ok"
    /\ capacity(LastBucket) = 2
    /\ Payload(LastBucket, U64ToNat(last.ix)) = [k \in 1..payload_size(LastBucket) |-> 1]
    /\ CellOccupied(LastBucket, 1 - U64ToNat(last.ix))

(***************************************************************************)
(* C19.  Under any sequence of allocate (is_resizing true or false), free  *)
(* and new_resized with valid indices the count, a u64, stays between 0    *)
(* and the number of allocated cells of the bucket: free never takes it    *)
(* below zero.                                                             *)
(* allocate(ix, true) locks the cell without counting it and free(ix)      *)
(* always runs fetch_sub(1): on a count of 0 it wraps to 2^64 - 1.         *)
(***************************************************************************)
C19_CountInRange ==
    \A a \in Live :
        LET c == counts[buckets[a].count]
        IN  U64Small(c) /\ U64ToNat(c) <= NumOccupied(buckets[a])

(***************************************************************************)
(* C13.  Threads run allocate(ix, false) and free(ix) at the same time,    *)
(* one call per cell at a time, the write of the lock word and the update  *)
(* of the count being separate steps.  No update of the count is lost:     *)
(* every step of a thread keeps the difference between the allocated cells *)
(* of the buckets sharing the count and the count, the updates still due   *)
(* taken in; and on a bucket that was not grown the count is the number of *)
(* allocated cells whenever no call is under way.                          *)
(***************************************************************************)
\* the count as a signed number near zero
CountInt(c) == IF U64Small(c) THEN U64ToNat(c) ELSE 0 - (Limb - c[1])

RECURSIVE SumOccupied(_, _)
SumOccupied(bs, as) ==
    IF as = {} THEN 0
    ELSE LET a == CHOOSE x \in as : TRUE
         IN  NumOccupied(bs[a]) + SumOccupied(bs, as \ {a})

\* allocated cells of the live buckets, which share one count, that the
\* count does not account for
Unaccounted(bs, cs, ths) ==
    LET live == {a \in ArenaIds : bs[a].live}
        any == CHOOSE a \in live : TRUE
    IN  SumOccupied(bs, live) - CountInt(cs[bs[any].count])
          - Cardinality({t \in ThreadIds : ths[t].pc = "fetch_add"})
          + Cardinality({t \in ThreadIds : ths[t].pc = "fetch_sub"})

Returned == {t \in ThreadIds : threads[t].ret # "none"}

Oks == {t \in ThreadIds : threads[t].ret = "Ok"}

C17_ExactlyOneOk ==
    buckets[1].live =>
        /\ Cardinality(Oks) <= 1
        /\ Returned # {} =>
             /\ Cardinality(Oks) = 1
             /\ \A t \in Returned \ Oks : threads[t].ret = "AlreadyAllocated"
             /\ counts[buckets[1].count] = U64(1)
             /\ CellOccupied(buckets[1], capacity(buckets[1]) - 1)
             /\ NumOccupied(buckets[1]) = 1

C17_Witness ==
    /\ Returned = ThreadIds
    /\ Cardinality(Oks) = 1
    /\ \E t \in ThreadIds : threads[t].ret = "AlreadyAllocated"
    /\ counts[buckets[1].count] = U64(1)

(***************************************************************************)
(* C18.  Without the caller's guard two threads that call                  *)
(* allocate(ix, false) on the same free cell, the read and the write of    *)
(* the lock word being separate steps, can both get Ok: the count is       *)
(* raised once per Ok, twice here, while one cell is allocated.            *)
(***************************************************************************)
C18_RaceOutcome ==
    (buckets[1].live /\ Quiescent) =>
        /\ counts[buckets[1].count] = U64(Cardinality(Oks))
        /\ NumOccupied(buckets[1]) = IF Oks = {} THEN 0 ELSE 1
        /\ \A t \in Returned : threads[t].ret \in {"Ok", "AlreadyAllocated"}

C18_Witness ==
    /\ Quiescent
    /\ \E t, u \in ThreadIds : t # u /\ threads[t].ret = "Ok" /\ threads[u].ret = "Ok"
    /\ counts[buckets[1].count] = U64(2)
    /\ NumOccupied(buckets[1]) = 1

====
